---- MODULE Spec2Model ----
(***************************************************************************)
(* Bookings and reviews of the travel-listing application: the booking     *)
(* serializer's validate(), the create and update handlers the booking     *)
(* viewset inherits, the pricing function of the Booking model, the        *)
(* review viewset and serializer, the listing serializer, and the seed     *)
(* command.                                                                *)
(*                                                                         *)
(* Time is counted in ticks, TicksPerDay ticks to a day, so that stays     *)
(* shorter than a day and stays with a partial last day exist.  Decimal    *)
(* money is counted in cents; a Python float is an IEEE 754 binary64.  A   *)
(* key that is missing from a request's validated data is None, as         *)
(* attrs.get(key) reports it.                                              *)
(*                                                                         *)
(* Spec handles one request against any store without overlapping          *)
(* CONFIRMED bookings; SpecConc interleaves the is_valid() and save() of   *)
(* two requests; SpecPricing runs the pricing functions between updates    *)
(* of a listing's price; SpecReviews handles one write to the review       *)
(* endpoints, then reads through the listing serializer; SpecSeed runs     *)
(* the seed command, populate_db or a POST, the ways rows are created;     *)
(* SpecListings deletes listings and users and changes a listing's         *)
(* capacity; SpecRelease cancels or deletes a booking and then books the   *)
(* same dates again; SpecUsers handles one write to the user endpoints;    *)
(* SpecLoop runs the retry loop that keeps a host from booking or          *)
(* reviewing the host's own listing, under weak fairness of each draw;     *)
(* SpecSeedTx runs the seed command step by step inside its transaction,   *)
(* with an exception possible after each step.                             *)
(***************************************************************************)
EXTENDS Integers, Sequences, FiniteSets, TLC

\* ------------------------------------------------------------------ bounds
MaxTime == 3
MaxGuests == 2
TicksPerDay == 2
MaxNights == 3
LimbBits == 10
SeedCount == 4

\* Bits of the significand of a Python float (IEEE 754 binary64).
MantissaBits == 53

\* ------------------------------------------------------------------ values
None == 0 - 1
NoneStr == "None"

Times == 0..MaxTime
Listings == {"l1", "l2"}
Users == {"u1", "u2"}
BookingIds == {"b1", "b2"}
FreshIds == {"b3"}
Workers == {"w1", "w2"}

PENDING == "PENDING"
CONFIRMED == "CONFIRMED"
CANCELLED == "CANCELLED"
Statuses == {PENDING, CONFIRMED, CANCELLED}

\* The listings table: nightly price in cents, guest capacity, host.
ListingTable ==
  [l \in Listings |->
     IF l = "l1" THEN [price_per_night |-> 1010, allowable_guests |-> 1,
                       host |-> "u1"]
                 ELSE [price_per_night |-> 10000, allowable_guests |-> 2,
                       host |-> "u2"]]

\* The messages of the serializer's ValidationErrors.
ErrMissingDates == "Both check-in date and check-out date must be provided."
ErrInterval == "Check-out date must be after check-in date."
ErrConflict == "Listing is already booked for the selected dates."
ErrCapacity == "Number of guests cannot exceed the listing's maximum capacity"
ErrNotNull == "IntegrityError: NOT NULL constraint failed: travel_bookings.amount_due"
NoError == ""

VARIABLES listings, bookings, old, req, resp, inflight, calc_in, calc_out,
          reviews, old_reviews, rreq, rresp, out,
          users, ureq, loop, tx, prev

vars == <<listings, bookings, old, req, resp, inflight, calc_in, calc_out,
         reviews, old_reviews, rreq, rresp, out,
         users, ureq, loop, tx, prev>>

\* The variables of the booking endpoints and of the pricing methods.
bookingVars == <<listings, bookings, old, req, resp, inflight, calc_in, calc_out>>

\* The variables of the review endpoints and of the listing serializer.
reviewVars == <<reviews, old_reviews, rreq, rresp, out>>

\* The user table and the last request to the user endpoints, the host-exclusion
\* loop of the sample-data commands, the seed command's transaction, and the
\* request before the last one.
userVars == <<users, ureq>>
extraVars == <<users, ureq, loop, tx, prev>>

\* ------------------------------------------------------------------ floats
\* A Python float is an IEEE 754 binary64: [mant, exp] stands for
\* mant * 2^(exp - (MantissaBits - 1)) with 2^(MantissaBits - 1) <= mant <
\* 2^MantissaBits.  A significand is a natural number written in limbs of
\* LimbBits bits, most significant first, without leading zeros.
Base == 2^LimbBits
Zero == [mant |-> <<>>, exp |-> 0]

Front(X) == SubSeq(X, 1, Len(X) - 1)
Last(X) == X[Len(X)]

RECURSIVE Big(_)
Big(n) == IF n = 0 THEN <<>> ELSE Append(Big(n \div Base), n % Base)

RECURSIVE Small(_)
Small(X) == IF X = <<>> THEN 0 ELSE Small(Front(X)) * Base + Last(X)

\* X * n + carry.
RECURSIVE Mul(_, _, _)
Mul(X, n, carry) ==
  IF X = <<>> THEN Big(carry)
  ELSE LET d == Last(X) * n + carry
       IN Append(Mul(Front(X), n, d \div Base), d % Base)

\* Quotient and remainder of X by d.
RECURSIVE Div(_, _, _, _)
Div(X, d, rem, acc) ==
  IF X = <<>> THEN [q |-> acc, r |-> rem]
  ELSE LET cur == rem * Base + Head(X)
           digit == cur \div d
       IN Div(Tail(X), d, cur % d,
              IF acc = <<>> /\ digit = 0 THEN acc ELSE Append(acc, digit))

RECURSIVE Succ(_)
Succ(X) ==
  IF X = <<>> THEN <<1>>
  ELSE IF Last(X) < Base - 1 THEN Append(Front(X), Last(X) + 1)
  ELSE Append(Succ(Front(X)), 0)

RECURSIVE BitLen(_)
BitLen(n) == IF n = 0 THEN 0 ELSE 1 + BitLen(n \div 2)

Width(X) == IF X = <<>> THEN 0 ELSE (Len(X) - 1) * LimbBits + BitLen(Head(X))

RECURSIVE ShiftLeft(_, _)
ShiftLeft(X, s) ==
  IF s = 0 \/ X = <<>> THEN X
  ELSE IF s >= LimbBits THEN ShiftLeft(Append(X, 0), s - LimbBits)
  ELSE Mul(X, 2^s, 0)

\* X without its c lowest bits; half is the highest dropped bit, sticky says
\* that a lower dropped bit was set.
RECURSIVE Drop(_, _, _, _)
Drop(X, c, half, sticky) ==
  IF c = 0 THEN [q |-> X, half |-> half, sticky |-> sticky]
  ELSE LET m == IF c >= LimbBits THEN LimbBits ELSE c
           d == Div(X, 2^m, 0, <<>>)
       IN Drop(d.q, c - m, d.r >= 2^(m - 1),
               sticky \/ half \/ d.r % 2^(m - 1) # 0)

Odd(X) == X # <<>> /\ Last(X) % 2 = 1

\* Round to nearest, ties to even.
RoundHalfEven(d) ==
  IF d.half /\ (d.sticky \/ Odd(d.q)) THEN Succ(d.q) ELSE d.q

\* The float nearest to (P + e) * 2^x, where 0 <= e < 1 and e > 0 iff sticky.
Nearest(P, x, sticky) ==
  IF P = <<>> THEN Zero
  ELSE LET cut == Width(P) - MantissaBits
           M == IF cut > 0 THEN RoundHalfEven(Drop(P, cut, FALSE, sticky))
                ELSE ShiftLeft(P, 0 - cut)
       IN IF Width(M) > MantissaBits
            THEN [mant |-> Div(M, 2, 0, <<>>).q, exp |-> x + cut + MantissaBits]
            ELSE [mant |-> M, exp |-> x + cut + MantissaBits - 1]

\* float(d) of a Decimal d with two decimal places, given in cents: the float
\* nearest to cents / 100.
float(cents) ==
  LET s == MantissaBits + 2 + BitLen(100) - BitLen(cents)
      d == Div(ShiftLeft(Big(cents), s), 100, 0, <<>>)
  IN Nearest(d.q, 0 - s, d.r # 0)

\* duration * f for an int duration >= 0: the exact product, rounded once.
FloatTimes(duration, f) ==
  Nearest(Mul(f.mant, duration, 0), f.exp - (MantissaBits - 1), FALSE)

\* The cents a DecimalField with decimal_places = 2 stores for a float >= 0.
Cents(f) ==
  LET c == MantissaBits - 1 - f.exp
      P == Mul(f.mant, 100, 0)
  IN IF f = Zero THEN 0
     ELSE IF c >= 0 THEN Small(RoundHalfEven(Drop(P, c, FALSE, FALSE)))
     ELSE Small(ShiftLeft(P, 0 - c))

\* ------------------------------------------------------------------ pricing
\* timedelta.days of (check_out - check_in): whole days, rounded down.
Days(check_in, check_out) == (check_out - check_in) \div TicksPerDay

ErrEndBeforeStart == "End date must be after start date."
ErrNotSet == "Listing, start date, and end date must be set."

\* Booking.calculate_amount_due: the float it returns, or the ValueError it
\* raises (ok = FALSE).
calculate_amount_due(table, b) ==
  IF b.listing # NoneStr /\ b.check_in_date # None /\ b.check_out_date # None
    THEN LET duration == Days(b.check_in_date, b.check_out_date)
         IN IF duration > 0
              THEN [ok |-> TRUE, error |-> NoError,
                    value |-> FloatTimes(duration, float(table[b.listing].price_per_night))]
              ELSE [ok |-> FALSE, error |-> ErrEndBeforeStart, value |-> Zero]
    ELSE [ok |-> FALSE, error |-> ErrNotSet, value |-> Zero]

\* BookingSerializer.get_amount_due of a stored booking.
get_amount_due(table, obj) ==
  FloatTimes(Days(obj.check_in_date, obj.check_out_date),
             float(table[obj.listing].price_per_night))

\* ------------------------------------------------------------------ validation
\* The queryset of BookingSerializer.validate: the CONFIRMED bookings of the
\* listing that start before the proposed check-out and end after the proposed
\* check-in.
ConflictingBookings_closed(store, attrs) ==
  {b \in DOMAIN store :
     /\ store[b].listing = attrs.listing
     /\ store[b].booking_status = CONFIRMED
     /\ store[b].check_in_date <= attrs.check_out_date
     /\ store[b].check_out_date >= attrs.check_in_date}

\* Bookings of any status block.
ConflictingBookings_any(store, attrs) ==
  {b \in DOMAIN store :
     /\ store[b].listing = attrs.listing
     /\ store[b].check_in_date < attrs.check_out_date
     /\ store[b].check_out_date > attrs.check_in_date}

ConflictingBookings(store, attrs) ==
  {b \in DOMAIN store :
     /\ store[b].listing = attrs.listing
     /\ store[b].booking_status = CONFIRMED
     /\ store[b].check_in_date < attrs.check_out_date
     /\ store[b].check_out_date > attrs.check_in_date}

validate_equal_dates(table, store, attrs) ==
  IF attrs.check_in_date = None \/ attrs.check_out_date = None
    THEN ErrMissingDates
  ELSE IF attrs.check_in_date > attrs.check_out_date
    THEN ErrInterval
  ELSE IF attrs.listing # NoneStr /\ ConflictingBookings(store, attrs) # {}
    THEN ErrConflict
  ELSE IF /\ attrs.number_of_guests # None
          /\ attrs.number_of_guests # 0
          /\ attrs.listing # NoneStr
          /\ attrs.number_of_guests > table[attrs.listing].allowable_guests
    THEN ErrCapacity
  ELSE NoError

validate_full_house(table, store, attrs) ==
  IF attrs.check_in_date = None \/ attrs.check_out_date = None
    THEN ErrMissingDates
  ELSE IF attrs.check_in_date >= attrs.check_out_date
    THEN ErrInterval
  ELSE IF attrs.listing # NoneStr /\ ConflictingBookings(store, attrs) # {}
    THEN ErrConflict
  ELSE IF /\ attrs.number_of_guests # None
          /\ attrs.number_of_guests # 0
          /\ attrs.listing # NoneStr
          /\ attrs.number_of_guests >= table[attrs.listing].allowable_guests
    THEN ErrCapacity
  ELSE NoError

validate_one_date(table, store, attrs) ==
  IF attrs.check_in_date = None /\ attrs.check_out_date = None
    THEN ErrMissingDates
  ELSE IF attrs.check_in_date >= attrs.check_out_date
    THEN ErrInterval
  ELSE IF attrs.listing # NoneStr /\ ConflictingBookings(store, attrs) # {}
    THEN ErrConflict
  ELSE IF /\ attrs.number_of_guests # None
          /\ attrs.number_of_guests # 0
          /\ attrs.listing # NoneStr
          /\ attrs.number_of_guests > table[attrs.listing].allowable_guests
    THEN ErrCapacity
  ELSE NoError

\* BookingSerializer.validate: the message of the ValidationError it raises,
\* NoError when it returns attrs.
validate(table, store, attrs) ==
  IF attrs.check_in_date = None \/ attrs.check_out_date = None
    THEN ErrMissingDates
  ELSE IF attrs.check_in_date >= attrs.check_out_date
    THEN ErrInterval
  ELSE IF attrs.listing # NoneStr /\ ConflictingBookings(store, attrs) # {}
    THEN ErrConflict
  ELSE IF /\ attrs.number_of_guests # None
          /\ attrs.number_of_guests # 0
          /\ attrs.listing # NoneStr
          /\ attrs.number_of_guests > table[attrs.listing].allowable_guests
    THEN ErrCapacity
  ELSE NoError

\* ------------------------------------------------------------------ requests
\* Validated data of a partial update: any key may be missing.
PartialAttrs ==
  [listing : Listings \cup {NoneStr},
   booked_by : Users \cup {NoneStr},
   number_of_guests : (0..MaxGuests) \cup {None},
   booking_status : Statuses \cup {NoneStr},
   check_in_date : Times \cup {None},
   check_out_date : Times \cup {None}]

\* Validated data of a create or a full update: the model fields without a
\* default (listing, check_in_date, check_out_date) are required.
FullAttrs ==
  [listing : Listings,
   booked_by : Users,
   number_of_guests : (0..MaxGuests) \cup {None},
   booking_status : Statuses \cup {NoneStr},
   check_in_date : Times,
   check_out_date : Times]

NoAttrs ==
  [listing |-> NoneStr, booked_by |-> NoneStr, number_of_guests |-> None, booking_status |-> NoneStr,
   check_in_date |-> None, check_out_date |-> None]

NoReq == [op |-> "none", target |-> "-", attrs |-> NoAttrs]
NoResp == [status |-> 0, error |-> NoError]

\* ------------------------------------------------------------------ the store
\* The row Booking(**validated_data) builds: the defaults of the model for the
\* missing keys; amount_due is read-only in the serializer, has no default and
\* stays None.
NewRow(attrs) ==
  [listing |-> attrs.listing,
   booked_by |-> attrs.booked_by,
   number_of_guests |-> IF attrs.number_of_guests = None THEN 0
                        ELSE attrs.number_of_guests,
   booking_status |-> IF attrs.booking_status = NoneStr THEN PENDING
                      ELSE attrs.booking_status,
   check_in_date |-> attrs.check_in_date,
   check_out_date |-> attrs.check_out_date,
   amount_due |-> None]

\* The row after ModelSerializer.update: setattr for every key of the
\* validated data; amount_due is not among them.
UpdatedRow(row, attrs) ==
  [listing |-> IF attrs.listing = NoneStr THEN row.listing ELSE attrs.listing,
   booked_by |-> IF attrs.booked_by = NoneStr THEN row.booked_by
                 ELSE attrs.booked_by,
   number_of_guests |-> IF attrs.number_of_guests = None
                        THEN row.number_of_guests ELSE attrs.number_of_guests,
   booking_status |-> IF attrs.booking_status = NoneStr
                      THEN row.booking_status ELSE attrs.booking_status,
   check_in_date |-> IF attrs.check_in_date = None
                     THEN row.check_in_date ELSE attrs.check_in_date,
   check_out_date |-> IF attrs.check_out_date = None
                      THEN row.check_out_date ELSE attrs.check_out_date,
   amount_due |-> row.amount_due]

\* amount_due is a DecimalField without null=True: the table rejects a row
\* whose amount_due is NULL.
SatisfiesNotNull(row) == row.amount_due # None

\* INSERT of a new row under a fresh primary key.
Insert(store, row) ==
  LET id == CHOOSE i \in (BookingIds \cup FreshIds) \ DOMAIN store : TRUE
  IN [i \in DOMAIN store \cup {id} |-> IF i = id THEN row ELSE store[i]]

\* ------------------------------------------------------------------ handlers
\* POST /bookings/: is_valid(), then ModelSerializer.create and save().
CreateBooking(attrs) ==
  /\ LET error == validate(listings, bookings, attrs)
         row == NewRow(attrs)
     IN /\ req' = [op |-> "POST", target |-> "-", attrs |-> attrs]
        /\ old' = bookings
        /\ IF error # NoError
             THEN /\ resp' = [status |-> 400, error |-> error]
                  /\ bookings' = bookings
           ELSE IF ~SatisfiesNotNull(row)
             THEN /\ resp' = [status |-> 500, error |-> ErrNotNull]
                  /\ bookings' = bookings
           ELSE /\ resp' = [status |-> 201, error |-> NoError]
                /\ bookings' = Insert(bookings, row)
  /\ UNCHANGED <<listings, inflight, calc_in, calc_out, reviewVars, extraVars>>

\* PUT or PATCH /bookings/<id>/: is_valid(), then ModelSerializer.update and
\* save().
UpdateBooking(op, b, attrs) ==
  /\ LET error == validate(listings, bookings, attrs)
     IN /\ req' = [op |-> op, target |-> b, attrs |-> attrs]
        /\ old' = bookings
        /\ IF error # NoError
             THEN /\ resp' = [status |-> 400, error |-> error]
                  /\ bookings' = bookings
             ELSE /\ resp' = [status |-> 200, error |-> NoError]
                  /\ bookings' = [bookings EXCEPT ![b] = UpdatedRow(bookings[b], attrs)]
  /\ UNCHANGED <<listings, inflight, calc_in, calc_out, reviewVars, extraVars>>

\* Each behaviour handles one request, against any of the initial stores.
Idle == req = NoReq

Post ==
  /\ Idle
  /\ \E attrs \in FullAttrs : CreateBooking(attrs)

Put ==
  /\ Idle
  /\ \E b \in DOMAIN bookings : \E attrs \in FullAttrs : UpdateBooking("PUT", b, attrs)

Patch ==
  /\ Idle
  /\ \E b \in DOMAIN bookings : \E attrs \in PartialAttrs : UpdateBooking("PATCH", b, attrs)

\* ------------------------------------------------------------------ initial stores
\* Stays of whole nights.
NightStays ==
  {s \in Times \X Times : s[1] < s[2] /\ (s[2] - s[1]) % TicksPerDay = 0}

\* A row as the management command stores it: amount_due is
\* float(price_per_night) * duration, kept with two decimal places.
SeedRow(l, u, status, s) ==
  [listing |-> l, booked_by |-> u, number_of_guests |-> 1,
   booking_status |-> status,
   check_in_date |-> s[1], check_out_date |-> s[2],
   amount_due |-> Cents(FloatTimes(Days(s[1], s[2]),
                                   float(ListingTable[l].price_per_night)))]

\* Rows booked by any user, the host included.
SeedRows_any ==
  UNION {{SeedRow(l, u, st, s) : st \in Statuses, s \in NightStays} :
           <<l, u>> \in Listings \X Users}

\* The user the command books with is not the listing's host.
SeedRows ==
  UNION {{SeedRow(l, u, st, s) : st \in Statuses, s \in NightStays} :
           <<l, u>> \in {lu \in Listings \X Users :
                           lu[2] # ListingTable[lu[1]].host}}

Overlap(r1, r2) ==
  \E t \in Times :
     /\ r1.check_in_date <= t /\ t < r1.check_out_date
     /\ r2.check_in_date <= t /\ t < r2.check_out_date

\* No two CONFIRMED bookings of one listing share a tick.
NonOverlap(store) ==
  \A b1, b2 \in DOMAIN store :
     (/\ b1 # b2
      /\ store[b1].listing = store[b2].listing
      /\ store[b1].booking_status = CONFIRMED
      /\ store[b2].booking_status = CONFIRMED)
     => ~Overlap(store[b1], store[b2])

InitStores ==
  {s \in UNION {[D -> SeedRows] : D \in SUBSET BookingIds} : NonOverlap(s)}

\* ------------------------------------------------------------------ requests in flight
\* A worker's request: idle, validated (is_valid() returned True, save() not
\* yet run) or done.
NoFlight ==
  [op |-> "none", target |-> "-", attrs |-> NoAttrs, stage |-> "idle",
   status |-> 0, error |-> NoError]

\* ------------------------------------------------------------------ calculations
PricingTimes == 0..(MaxNights * TicksPerDay + 1)

CalcInputs ==
  [listing : Listings \cup {NoneStr},
   check_in_date : PricingTimes \cup {None},
   check_out_date : PricingTimes \cup {None}]

\* The amount_due a booking was stored with, at the prices of ListingTable;
\* None for a booking that is not complete.
AmountAtCreation(c) ==
  IF /\ c.listing # NoneStr /\ c.check_in_date # None /\ c.check_out_date # None
     /\ Days(c.check_in_date, c.check_out_date) > 0
    THEN Cents(FloatTimes(Days(c.check_in_date, c.check_out_date),
                          float(ListingTable[c.listing].price_per_night)))
    ELSE None

\* The Booking instances the pricing functions are called on.
CalcBookings ==
  {[listing |-> c.listing, check_in_date |-> c.check_in_date,
    check_out_date |-> c.check_out_date, amount_due |-> AmountAtCreation(c)] :
     c \in CalcInputs}

\* The prices a listing update sets.
Prices == {ListingTable[l].price_per_night : l \in Listings}

NoCalcIn ==
  [listing |-> NoneStr, check_in_date |-> None, check_out_date |-> None,
   amount_due |-> None]
NoCalc == [op |-> "none", ok |-> FALSE, error |-> NoError, value |-> Zero]

\* ------------------------------------------------------------------ reviews
\* The rating bounds of ReviewSerializer.validate.
MinRating == 1
MaxRating == 5

ReviewIds == {"r1", "r2"}
Comments == {"c1", "c2"}
Ratings == MinRating..MaxRating

ErrRating == "Rating must be between 1 and 5."
ErrKeyRating == "KeyError: 'rating'"
ErrNoReviews == "AttributeError: 'Listing' object has no attribute 'reviews'"

\* The float nearest to num / den, for naturals num and den > 0.
FloatOf(num, den) ==
  LET s == MantissaBits + 2 + BitLen(den) - BitLen(num)
      d == Div(ShiftLeft(Big(num), s), den, 0, <<>>)
  IN Nearest(d.q, 0 - s, d.r # 0)

\* f <= g for floats f, g >= 0: the significands have the same width, so
\* they compare limb by limb.
RECURSIVE LimbsLeq(_, _)
LimbsLeq(X, Y) ==
  IF X = <<>> THEN TRUE
  ELSE IF Head(X) # Head(Y) THEN Head(X) < Head(Y)
  ELSE LimbsLeq(Tail(X), Tail(Y))

FloatLeq(f, g) ==
  IF f = Zero THEN TRUE
  ELSE IF g = Zero THEN FALSE
  ELSE f.exp < g.exp \/ (f.exp = g.exp /\ LimbsLeq(f.mant, g.mant))

\* The rows of a queryset in the order the database returns them: each
\* enumeration of the ids without repetition is one such order.
Orders(ids) ==
  {o \in [1..Cardinality(ids) -> ids] : \A i, j \in DOMAIN o : i # j => o[i] # o[j]}

\* The reviews of listing l in store, in the order o of their ids.
Rows(store, o) == [i \in DOMAIN o |-> store[o[i]]]

ReviewsOf(store, l) == {r \in DOMAIN store : store[r].listing = l}

RECURSIVE SumRatings(_)
SumRatings(rows) ==
  IF rows = <<>> THEN 0 ELSE rows[1].rating + SumRatings(Tail(rows))

\* Avg("rating") over the rows of a queryset: NULL over no rows, else the sum
\* of the ratings by their number, as a float.
NullAvg == [null |-> TRUE, value |-> Zero]

\* An aggregate that reads the first row only.
Avg_first(rows) ==
  IF rows = <<>> THEN NullAvg
  ELSE [null |-> FALSE, value |-> FloatOf(rows[1].rating, 1)]

Avg(rows) ==
  IF rows = <<>> THEN NullAvg
  ELSE [null |-> FALSE, value |-> FloatOf(SumRatings(rows), Len(rows))]

\* A Listing instance as the serializer receives it: its columns and the
\* reverse accessors of the foreign keys that point to it (related_name
\* "reviews_listing" of Review.listing, "booking_listing" of Booking.listing).
ListingObject(table, rstore, bstore, l, o) ==
  [listing_id |-> l,
   price_per_night |-> table[l].price_per_night,
   allowable_guests |-> table[l].allowable_guests,
   host |-> table[l].host,
   reviews_listing |-> Rows(rstore, o),
   booking_listing |-> {b \in DOMAIN bstore : bstore[b].listing = l}]

NoOut == [ok |-> FALSE, error |-> NoError, value |-> Zero, keys |-> {}]

\* ListingSerializer.get_average_rating(obj): obj.reviews is looked up on the
\* instance, then aggregated; `float(avg) if avg else 0.0`.
get_average_rating(obj) ==
  IF "reviews" \in DOMAIN obj
    THEN LET avg == Avg(obj.reviews)
         IN [ok |-> TRUE, error |-> NoError, keys |-> {},
             value |-> IF avg.null \/ avg.value = Zero THEN Zero ELSE avg.value]
    ELSE [ok |-> FALSE, error |-> ErrNoReviews, value |-> Zero, keys |-> {}]

\* The columns of Listing: what `fields = "__all__"` serializes.
ListingFields ==
  {"listing_id", "title", "description", "listing_type", "price_per_night",
   "location_address", "allowable_guests", "number_of_bedrooms",
   "number_of_bathrooms", "amenities", "host", "available_from", "created_at",
   "updated_at"}

\* The keys of ListingSerializer(obj).data: Meta.fields, and one key per field
\* declared on the serializer class (none is declared).
DeclaredFields == {}

ListingData(obj) ==
  [ok |-> TRUE, error |-> NoError, value |-> Zero,
   keys |-> ListingFields \cup DeclaredFields]

\* ReviewSerializer.validate: the error it raises, NoError if none.  A
\* request without the key "rating" fails on attrs["rating"].
validate_review_open(attrs) ==
  IF attrs.rating = None THEN ErrKeyRating
  ELSE IF ~(MinRating - 1 <= attrs.rating /\ attrs.rating <= MaxRating) THEN ErrRating
  ELSE NoError

validate_review(attrs) ==
  IF attrs.rating = None THEN ErrKeyRating
  ELSE IF ~(MinRating <= attrs.rating /\ attrs.rating <= MaxRating) THEN ErrRating
  ELSE NoError

\* Request bodies: NoneStr and None stand for a key the request omits.
RequestRatings == (MinRating - 1)..(MaxRating + 1)

FullReviewAttrs ==
  [listing : Listings, reviewed_by : Users, rating : RequestRatings,
   comment : Comments \cup {NoneStr}]

PartialReviewAttrs ==
  [listing : Listings \cup {NoneStr}, reviewed_by : Users \cup {NoneStr},
   rating : RequestRatings \cup {None}, comment : Comments \cup {NoneStr}]

NoReviewAttrs ==
  [listing |-> NoneStr, reviewed_by |-> NoneStr, rating |-> None, comment |-> NoneStr]

NoReviewReq == [op |-> "none", target |-> "-", attrs |-> NoReviewAttrs]

\* ModelSerializer.create: a row of the validated attributes (comment is NULL
\* when omitted).
NewReview(attrs) ==
  [listing |-> attrs.listing, reviewed_by |-> attrs.reviewed_by,
   rating |-> attrs.rating, comment |-> attrs.comment]

\* ModelSerializer.update: setattr for each key of the validated attributes.
UpdatedReview(row, attrs) ==
  [listing |-> IF attrs.listing # NoneStr THEN attrs.listing ELSE row.listing,
   reviewed_by |-> IF attrs.reviewed_by # NoneStr THEN attrs.reviewed_by
                   ELSE row.reviewed_by,
   rating |-> IF attrs.rating # None THEN attrs.rating ELSE row.rating,
   comment |-> IF attrs.comment # NoneStr THEN attrs.comment ELSE row.comment]

\* ------------------------------------------------------------------ users
\* A stored password: the text make_password derived it from, and the
\* algorithm that did (empty for a string stored as it came).
Raw(text) == [algorithm |-> "", secret |-> text]
make_password(text) == [algorithm |-> "pbkdf2_sha256", secret |-> text]

\* The users the listings, bookings and reviews refer to.
UserTable ==
  [u \in Users |-> [email |-> u, username |-> u, password |-> make_password("pw")]]

NoUserAttrs == [email |-> NoneStr, password |-> NoneStr]
NoUserReq ==
  [op |-> "none", target |-> "-", attrs |-> NoUserAttrs, env |-> NoneStr,
   status |-> 0]
NoLoop ==
  [pc |-> "none", users |-> {}, host |-> NoneStr, user |-> NoneStr,
   retried |-> FALSE]
NoTx == [pc |-> "none"]
NoPrev == [op |-> "none", target |-> "-"]

\* The state of everything but bookings and reviews when it is not exercised.
ExtrasAtRest ==
  /\ users = UserTable
  /\ ureq = NoUserReq
  /\ loop = NoLoop
  /\ tx = NoTx
  /\ prev = NoPrev

\* The state of the review endpoints before any request.
ReviewsAtRest ==
  /\ reviews = <<>>
  /\ old_reviews = <<>>
  /\ rreq = NoReviewReq
  /\ rresp = NoResp
  /\ out = NoOut

Init ==
  /\ listings = ListingTable
  /\ bookings \in InitStores
  /\ old = bookings
  /\ req = NoReq
  /\ resp = NoResp
  /\ inflight = [w \in Workers |-> NoFlight]
  /\ calc_in = NoCalcIn
  /\ calc_out = NoCalc
  /\ ReviewsAtRest
  /\ ExtrasAtRest

Next == Post \/ Put \/ Patch

Spec == Init /\ [][Next]_vars

\* ------------------------------------------------------------------ pricing alone
\* ListingViewSet.partial_update of price_per_night.
UpdateListingPrice ==
  /\ calc_out = NoCalc
  /\ \E l \in Listings : \E p \in Prices :
        /\ listings[l].price_per_night # p
        /\ listings' = [listings EXCEPT ![l].price_per_night = p]
  /\ UNCHANGED <<bookings, old, req, resp, inflight, calc_in, calc_out, reviewVars, extraVars>>

\* Booking.clean: self.amount_due = self.calculate_amount_due(), on a booking
\* that need not be complete; calc_out.value is the new amount_due.
Clean ==
  /\ calc_out = NoCalc
  /\ LET r == calculate_amount_due(listings, calc_in)
     IN calc_out' = [op |-> "clean", ok |-> r.ok, error |-> r.error,
                     value |-> r.value]
  /\ UNCHANGED <<listings, bookings, old, req, resp, inflight, calc_in, reviewVars, extraVars>>

\* Serialization of a stored booking: it has a listing and check_out_date after
\* check_in_date.
GetAmountDue ==
  /\ calc_out = NoCalc
  /\ calc_in.listing # NoneStr
  /\ calc_in.check_in_date # None
  /\ calc_in.check_out_date # None
  /\ calc_in.check_in_date < calc_in.check_out_date
  /\ calc_out' = [op |-> "get_amount_due", ok |-> TRUE, error |-> NoError,
                  value |-> get_amount_due(listings, calc_in)]
  /\ UNCHANGED <<listings, bookings, old, req, resp, inflight, calc_in, reviewVars, extraVars>>

InitPricing ==
  /\ listings = ListingTable
  /\ bookings = <<>>
  /\ old = bookings
  /\ req = NoReq
  /\ resp = NoResp
  /\ inflight = [w \in Workers |-> NoFlight]
  /\ calc_in \in CalcBookings
  /\ calc_out = NoCalc
  /\ ReviewsAtRest
  /\ ExtrasAtRest

NextPricing == UpdateListingPrice \/ Clean \/ GetAmountDue

SpecPricing == InitPricing /\ [][NextPricing]_vars

\* ------------------------------------------------------------------ interleaved requests
\* The requests the workers send: stays to be CONFIRMED.
ConcAttrs ==
  {a \in FullAttrs :
     /\ a.number_of_guests = None
     /\ a.booking_status = CONFIRMED
     /\ a.booked_by # ListingTable[a.listing].host
     /\ a.check_in_date < a.check_out_date}

\* An is_valid() that writes what it has validated.
IsValid_reserving(w, op, b, attrs) ==
  /\ inflight[w].stage = "idle"
  /\ LET error == validate(listings, bookings, attrs)
     IN /\ inflight' =
             [inflight EXCEPT ![w] =
                IF error # NoError
                  THEN [op |-> op, target |-> b, attrs |-> attrs, stage |-> "done",
                        status |-> 400, error |-> error]
                  ELSE [op |-> op, target |-> b, attrs |-> attrs,
                        stage |-> "validated", status |-> 0, error |-> NoError]]
        /\ bookings' =
             IF error = NoError /\ op = "PUT"
               THEN [bookings EXCEPT ![b] = UpdatedRow(bookings[b], attrs)]
               ELSE bookings
  /\ UNCHANGED <<listings, old, req, resp, calc_in, calc_out, reviewVars, extraVars>>

\* serializer.is_valid() of worker w's request: validate() reads the store as
\* it is now.
IsValid(w, op, b, attrs) ==
  /\ inflight[w].stage = "idle"
  /\ LET error == validate(listings, bookings, attrs)
     IN inflight' =
          [inflight EXCEPT ![w] =
             IF error # NoError
               THEN [op |-> op, target |-> b, attrs |-> attrs, stage |-> "done",
                     status |-> 400, error |-> error]
               ELSE [op |-> op, target |-> b, attrs |-> attrs,
                     stage |-> "validated", status |-> 0, error |-> NoError]]
  /\ UNCHANGED <<listings, bookings, old, req, resp, calc_in, calc_out, reviewVars, extraVars>>

ConcPost ==
  \E w \in Workers :
     /\ inflight[w].stage = "idle"
     /\ \E attrs \in ConcAttrs : IsValid(w, "POST", "-", attrs)

ConcPut ==
  \E w \in Workers :
     /\ inflight[w].stage = "idle"
     /\ \E b \in DOMAIN bookings : \E attrs \in ConcAttrs : IsValid(w, "PUT", b, attrs)

\* perform_create of worker w: serializer.save() on the store as it is now.
PerformCreate ==
  \E w \in Workers :
     /\ inflight[w].stage = "validated"
     /\ inflight[w].op = "POST"
     /\ LET row == NewRow(inflight[w].attrs)
        IN IF ~SatisfiesNotNull(row)
             THEN /\ inflight' = [inflight EXCEPT ![w].stage = "done",
                                                  ![w].status = 500,
                                                  ![w].error = ErrNotNull]
                  /\ bookings' = bookings
             ELSE /\ inflight' = [inflight EXCEPT ![w].stage = "done",
                                                  ![w].status = 201]
                  /\ bookings' = Insert(bookings, row)
     /\ UNCHANGED <<listings, old, req, resp, calc_in, calc_out, reviewVars, extraVars>>

\* perform_update of worker w.
PerformUpdate ==
  \E w \in Workers :
     /\ inflight[w].stage = "validated"
     /\ inflight[w].op = "PUT"
     /\ inflight' = [inflight EXCEPT ![w].stage = "done", ![w].status = 200]
     /\ bookings' = [bookings EXCEPT ![inflight[w].target] =
                       UpdatedRow(bookings[inflight[w].target], inflight[w].attrs)]
     /\ UNCHANGED <<listings, old, req, resp, calc_in, calc_out, reviewVars, extraVars>>

\* The stores the workers start from: two bookings, none CANCELLED.
ConcStores ==
  {s \in InitStores :
     /\ DOMAIN s = BookingIds
     /\ \A b \in DOMAIN s : s[b].booking_status # CANCELLED}

InitConc ==
  /\ listings = ListingTable
  /\ bookings \in ConcStores
  /\ old = bookings
  /\ req = NoReq
  /\ resp = NoResp
  /\ inflight = [w \in Workers |-> NoFlight]
  /\ calc_in = NoCalcIn
  /\ calc_out = NoCalc
  /\ ReviewsAtRest
  /\ ExtrasAtRest

NextConc == ConcPost \/ ConcPut \/ PerformCreate \/ PerformUpdate

SpecConc == InitConc /\ [][NextConc]_vars

\* ------------------------------------------------------------------ reviews
\* ReviewViewSet (a ModelViewSet: create, update, partial_update, destroy),
\* and the two readers of ListingSerializer.
WithReview(store, id, row) ==
  [r \in DOMAIN store \cup {id} |-> IF r = id THEN row ELSE store[r]]

WithoutReview(store, id) == [r \in DOMAIN store \ {id} |-> store[r]]

\* POST /reviews/: validate, then insert under a fresh uuid4.
CreateReview(id, attrs) ==
  LET error == validate_review(attrs)
  IN /\ rreq' = [op |-> "POST", target |-> "-", attrs |-> attrs]
     /\ old_reviews' = reviews
     /\ out' = NoOut
     /\ IF error = NoError
          THEN /\ reviews' = WithReview(reviews, id, NewReview(attrs))
               /\ rresp' = [status |-> 201, error |-> NoError]
          ELSE /\ reviews' = reviews
               /\ rresp' = [status |-> 400, error |-> error]
     /\ UNCHANGED <<bookingVars, extraVars>>

\* PUT or PATCH /reviews/<id>/: validate, then save the changed row.  The
\* KeyError of validate is an unhandled exception: a 500.
UpdateReview(op, id, attrs) ==
  LET error == validate_review(attrs)
  IN /\ rreq' = [op |-> op, target |-> id, attrs |-> attrs]
     /\ old_reviews' = reviews
     /\ out' = NoOut
     /\ IF error = NoError
          THEN /\ reviews' = WithReview(reviews, id, UpdatedReview(reviews[id], attrs))
               /\ rresp' = [status |-> 200, error |-> NoError]
          ELSE /\ reviews' = reviews
               /\ rresp' = [status |-> IF error = ErrKeyRating THEN 500 ELSE 400,
                            error |-> error]
     /\ UNCHANGED <<bookingVars, extraVars>>

\* One write request is handled in a behaviour; reads may follow it.
ReviewsIdle == rreq = NoReviewReq

PostReview ==
  /\ ReviewsIdle
  /\ \E id \in ReviewIds \ DOMAIN reviews :
        \E attrs \in FullReviewAttrs : CreateReview(id, attrs)

PutReview ==
  /\ ReviewsIdle
  /\ \E id \in DOMAIN reviews :
        \E attrs \in FullReviewAttrs : UpdateReview("PUT", id, attrs)

PatchReview ==
  /\ ReviewsIdle
  /\ \E id \in DOMAIN reviews :
        \E attrs \in PartialReviewAttrs : UpdateReview("PATCH", id, attrs)

\* DELETE /reviews/<id>/.
DeleteReview ==
  /\ ReviewsIdle
  /\ \E id \in DOMAIN reviews :
     /\ rreq' = [op |-> "DELETE", target |-> id, attrs |-> NoReviewAttrs]
     /\ old_reviews' = reviews
     /\ out' = NoOut
     /\ reviews' = WithoutReview(reviews, id)
     /\ rresp' = [status |-> 204, error |-> NoError]
     /\ UNCHANGED <<bookingVars, extraVars>>

\* The rows Command._create_reviews draws: a rating of 1 to 5, a reviewer
\* who is not the host of the listing.
SeedReviewRows ==
  {row \in [listing : Listings, reviewed_by : Users, rating : Ratings,
            comment : Comments] :
     row.reviewed_by # ListingTable[row.listing].host}

\* The stores manage.py seed leaves behind: it deletes every review, then
\* creates the new ones.
InitReviewStores ==
  UNION {[ids -> SeedReviewRows] : ids \in SUBSET ReviewIds}

\* ListingSerializer().get_average_rating(listing).
GetAverageRating ==
  \E l \in Listings :
     \E o \in Orders(ReviewsOf(reviews, l)) :
        /\ rreq' = [op |-> "average", target |-> l, attrs |-> NoReviewAttrs]
        /\ old_reviews' = reviews
        /\ out' = get_average_rating(ListingObject(listings, reviews, bookings, l, o))
        /\ rresp' = NoResp
        /\ UNCHANGED <<reviews, bookingVars, extraVars>>

\* ListingSerializer(listing).data.
SerializeListing ==
  \E l \in Listings :
     \E o \in Orders(ReviewsOf(reviews, l)) :
        /\ rreq' = [op |-> "serialize", target |-> l, attrs |-> NoReviewAttrs]
        /\ old_reviews' = reviews
        /\ out' = ListingData(ListingObject(listings, reviews, bookings, l, o))
        /\ rresp' = NoResp
        /\ UNCHANGED <<reviews, bookingVars, extraVars>>

InitReviews ==
  /\ listings = ListingTable
  /\ bookings = <<>>
  /\ old = bookings
  /\ req = NoReq
  /\ resp = NoResp
  /\ inflight = [w \in Workers |-> NoFlight]
  /\ calc_in = NoCalcIn
  /\ calc_out = NoCalc
  /\ reviews \in InitReviewStores
  /\ old_reviews = reviews
  /\ rreq = NoReviewReq
  /\ rresp = NoResp
  /\ out = NoOut
  /\ ExtrasAtRest

NextReviews ==
  \/ PostReview
  \/ PutReview
  \/ PatchReview
  \/ DeleteReview
  \/ GetAverageRating
  \/ SerializeListing

SpecReviews == InitReviews /\ [][NextReviews]_vars

\* ------------------------------------------------------------------ seed
\* manage.py seed (Command.handle): one transaction that deletes every row and
\* creates the bookings and the reviews anew.
statuses == <<PENDING, CONFIRMED, CANCELLED>>

\* The primary key of the i-th booking the command creates.
SeedId(i) == ToString(i)

\* _create_bookings: the first bookings take the statuses in turn, each later
\* one takes random.choice(statuses).
SeedStatuses(i) == IF i <= Len(statuses) THEN {statuses[i]} ELSE Statuses

create_bookings ==
  {s \in [{SeedId(i) : i \in 1..SeedCount} -> SeedRows] :
     \A i \in 1..SeedCount : s[SeedId(i)].booking_status \in SeedStatuses(i)}

\* _create_reviews: the first reviews take the ratings 1, 2, ... in turn.
ReviewOrder == <<"r1", "r2">>

create_reviews ==
  {s \in [ReviewIds -> SeedReviewRows] :
     \A i \in DOMAIN ReviewOrder : s[ReviewOrder[i]].rating = MinRating + i - 1}

Seed ==
  /\ Idle
  /\ \E store \in create_bookings :
        \E rstore \in create_reviews :
           /\ req' = [op |-> "seed", target |-> "-", attrs |-> NoAttrs]
           /\ old' = bookings
           /\ bookings' = store
           /\ resp' = NoResp
           /\ listings' = ListingTable
           /\ old_reviews' = reviews
           /\ reviews' = rstore
           /\ UNCHANGED <<inflight, calc_in, calc_out, rreq, rresp, out, extraVars>>

\* scripts/populate_db.py, main(): create_users makes the admin user with
\* create_user, then passes date_of_birth, which User does not have, and the
\* TypeError ends main() in its except clause; create_bookings and
\* create_reviews, written for Booking.objects, guest, total_guests and
\* reviewer, which the models do not have either, are not reached.
AdminUser ==
  [email |-> "admin@example.com", username |-> "admin@example.com",
   password |-> make_password("AdminPass123!")]

PopulateDb ==
  /\ Idle
  /\ req' = [op |-> "populate_db", target |-> "-", attrs |-> NoAttrs]
  /\ old' = bookings
  /\ old_reviews' = reviews
  /\ resp' = NoResp
  /\ users' = [u \in DOMAIN users \cup {"admin"} |->
                IF u \in DOMAIN users THEN users[u] ELSE AdminUser]
  /\ UNCHANGED <<listings, bookings, reviews, inflight, calc_in, calc_out,
                 rreq, rresp, out, ureq, loop, tx, prev>>

\* The database before the command runs: empty, or holding one booking.
InitSeed ==
  /\ listings = ListingTable
  /\ bookings \in {s \in InitStores : DOMAIN s \subseteq {"b1"}}
  /\ old = bookings
  /\ req = NoReq
  /\ resp = NoResp
  /\ inflight = [w \in Workers |-> NoFlight]
  /\ calc_in = NoCalcIn
  /\ calc_out = NoCalc
  /\ ReviewsAtRest
  /\ ExtrasAtRest

\* The ways a booking row may come to exist: the two sample-data commands and
\* POST /bookings/.
NextSeed == Seed \/ Post \/ PopulateDb

SpecSeed == InitSeed /\ [][NextSeed]_vars

\* ------------------------------------------------------------------ listings
\* ListingViewSet and UserViewSet (ModelViewSets): destroy, which runs
\* Model.delete() with its on_delete=CASCADE collector, and the update of a
\* listing's allowable_guests.

\* A deletion that leaves the referring rows alone.
WithoutListings_kept(store, ls) == store

\* The rows of a booking or review table that do not refer to a listing of ls.
WithoutListings(store, ls) ==
  [x \in {y \in DOMAIN store : store[y].listing \notin ls} |-> store[x]]

\* The rows that do not refer to user u through column (booked_by,
\* reviewed_by).
WithoutBooker(store, u) ==
  [x \in {y \in DOMAIN store : store[y].booked_by # u} |-> store[x]]

WithoutReviewer(store, u) ==
  [x \in {y \in DOMAIN store : store[y].reviewed_by # u} |-> store[x]]

ListingsOfHost(table, u) == {l \in DOMAIN table : table[l].host = u}

\* DELETE /listings/<l>/.
DeleteListing ==
  \E l \in DOMAIN listings :
     /\ prev' = [op |-> "delete_listing", target |-> l]
     /\ old' = bookings
     /\ old_reviews' = reviews
     /\ listings' = [x \in DOMAIN listings \ {l} |-> listings[x]]
     /\ bookings' = WithoutListings(bookings, {l})
     /\ reviews' = WithoutListings(reviews, {l})
     /\ UNCHANGED <<req, resp, inflight, calc_in, calc_out, rreq, rresp, out,
                    users, ureq, loop, tx>>

\* DELETE /users/<u>/: the user's listings go, with their bookings and
\* reviews, and the bookings and reviews the user made.
DeleteUser ==
  \E u \in DOMAIN users :
     LET hosted == ListingsOfHost(listings, u)
     IN /\ prev' = [op |-> "delete_user", target |-> u]
        /\ old' = bookings
        /\ old_reviews' = reviews
        /\ users' = [x \in DOMAIN users \ {u} |-> users[x]]
        /\ listings' = [x \in DOMAIN listings \ hosted |-> listings[x]]
        /\ bookings' = WithoutBooker(WithoutListings(bookings, hosted), u)
        /\ reviews' = WithoutReviewer(WithoutListings(reviews, hosted), u)
        /\ UNCHANGED <<req, resp, inflight, calc_in, calc_out, rreq, rresp, out,
                       ureq, loop, tx>>

\* PATCH /listings/<l>/ {allowable_guests: g}, g >= 1 (MinValueValidator).
UpdateListingGuests ==
  \E l \in DOMAIN listings :
     \E g \in 1..MaxGuests :
        /\ listings[l].allowable_guests # g
        /\ prev' = [op |-> "update_listing", target |-> l]
        /\ old' = bookings
        /\ old_reviews' = reviews
        /\ listings' = [listings EXCEPT ![l].allowable_guests = g]
        /\ UNCHANGED <<bookings, reviews, req, resp, inflight, calc_in, calc_out,
                       rreq, rresp, out, users, ureq, loop, tx>>

\* The bookings the seed command leaves: number_of_guests is
\* random.randint(1, min(listing.allowable_guests, 10)).
GuestRows ==
  {r \in {[x EXCEPT !.number_of_guests = g] :
            x \in {y \in SeedRows : y.booking_status = CONFIRMED},
            g \in 1..MaxGuests} :
     r.number_of_guests <= ListingTable[r.listing].allowable_guests}

InitListings ==
  /\ listings = ListingTable
  /\ bookings \in [BookingIds -> GuestRows]
  /\ old = bookings
  /\ req = NoReq
  /\ resp = NoResp
  /\ inflight = [w \in Workers |-> NoFlight]
  /\ calc_in = NoCalcIn
  /\ calc_out = NoCalc
  /\ reviews \in {s \in InitReviewStores :
                    \A r \in DOMAIN s : s[r].rating = MaxRating /\ s[r].comment = "c1"}
  /\ old_reviews = reviews
  /\ rreq = NoReviewReq
  /\ rresp = NoResp
  /\ out = NoOut
  /\ ExtrasAtRest

NextListings == DeleteListing \/ DeleteUser \/ UpdateListingGuests

SpecListings == InitListings /\ [][NextListings]_vars

\* ------------------------------------------------------------------ release
\* A CONFIRMED booking is cancelled by an update or deleted, then its listing
\* is requested again for the same dates.

\* The validated data of an update that sets the status of a booking to
\* CANCELLED and sends the booking's own dates; the listing is the booking's
\* own, another, or left out.
CancelAttrs(row) ==
  {a \in PartialAttrs :
     /\ a.booking_status = CANCELLED
     /\ a.check_in_date = row.check_in_date
     /\ a.check_out_date = row.check_out_date
     /\ a.number_of_guests = None
     /\ a.booked_by = NoneStr}

\* PATCH /bookings/<b>/ that validate() accepts.
CancelBooking ==
  /\ Idle
  /\ prev = NoPrev
  /\ \E b \in DOMAIN bookings :
        \E attrs \in CancelAttrs(bookings[b]) :
           /\ bookings[b].booking_status = CONFIRMED
           /\ validate(listings, bookings, attrs) = NoError
           /\ prev' = [op |-> "cancel", target |-> b, row |-> bookings[b]]
           /\ old' = bookings
           /\ bookings' = [bookings EXCEPT ![b] = UpdatedRow(bookings[b], attrs)]
           /\ UNCHANGED <<listings, req, resp, inflight, calc_in, calc_out,
                          reviewVars, users, ureq, loop, tx>>

\* DELETE /bookings/<b>/.
DeleteBooking ==
  /\ Idle
  /\ prev = NoPrev
  /\ \E b \in DOMAIN bookings :
        /\ bookings[b].booking_status = CONFIRMED
        /\ prev' = [op |-> "delete", target |-> b, row |-> bookings[b]]
        /\ old' = bookings
        /\ bookings' = [x \in DOMAIN bookings \ {b} |-> bookings[x]]
        /\ UNCHANGED <<listings, req, resp, inflight, calc_in, calc_out,
                       reviewVars, users, ureq, loop, tx>>

\* POST /bookings/ for the listing and the dates of the released booking.
Rebook ==
  /\ Idle
  /\ prev # NoPrev
  /\ \E attrs \in FullAttrs :
        /\ attrs.listing = prev.row.listing
        /\ attrs.check_in_date = prev.row.check_in_date
        /\ attrs.check_out_date = prev.row.check_out_date
        /\ CreateBooking(attrs)

InitRelease == Init

NextRelease == CancelBooking \/ DeleteBooking \/ Rebook

SpecRelease == InitRelease /\ [][NextRelease]_vars

\* ------------------------------------------------------------------ user endpoints
\* UserViewSet with UserSerializer: create is overridden (serializers.py:32-44),
\* update is the one of ModelSerializer.
Emails == {"e1", "e2"}
Passwords == {"p1", "p2"}

\* os.getenv("DEFAULT_PASSWORD"): the value of the variable, or None (NoneStr)
\* when the environment does not set it.
Environments == {"default-pw", NoneStr}

\* Validated data: email is required on POST and PUT, password never is.
FullUserAttrs == [email : Emails, password : Passwords \cup {NoneStr}]
PartialUserAttrs == [email : Emails \cup {NoneStr}, password : Passwords \cup {NoneStr}]

\* The UniqueValidator of User.email: another row has the email.
EmailTaken(store, u, email) ==
  \E x \in DOMAIN store \ {u} : store[x].email = email

\* UserSerializer.create: the row of User(**validated_data) after
\* `if password: user.set_password(password)`; username is not a field of the
\* serializer and stays ''.
NewUser(attrs, env) ==
  LET password == IF attrs.password # NoneStr THEN attrs.password ELSE env
  IN [email |-> attrs.email, username |-> "",
      password |-> IF password # NoneStr THEN make_password(password) ELSE Raw("")]

\* ModelSerializer.update: setattr(instance, key, value) for each key.
UpdatedUser(row, attrs) ==
  [email |-> IF attrs.email # NoneStr THEN attrs.email ELSE row.email,
   username |-> row.username,
   password |-> IF attrs.password # NoneStr THEN Raw(attrs.password)
                ELSE row.password]

\* POST /users/.
CreateUser ==
  \E u \in Users \ DOMAIN users :
     \E attrs \in FullUserAttrs :
        \E env \in Environments :
           /\ IF EmailTaken(users, u, attrs.email)
                THEN /\ ureq' = [op |-> "POST", target |-> u, attrs |-> attrs,
                                 env |-> env, status |-> 400]
                     /\ users' = users
              ELSE IF \E x \in DOMAIN users : users[x].username = ""
                THEN /\ ureq' = [op |-> "POST", target |-> u, attrs |-> attrs,
                                 env |-> env, status |-> 500]
                     /\ users' = users
              ELSE /\ ureq' = [op |-> "POST", target |-> u, attrs |-> attrs,
                               env |-> env, status |-> 201]
                   /\ users' = [x \in DOMAIN users \cup {u} |->
                                  IF x = u THEN NewUser(attrs, env) ELSE users[x]]
           /\ UNCHANGED <<bookingVars, reviewVars, loop, tx, prev>>

\* PUT or PATCH /users/<u>/.
UpdateUser(op, u, attrs) ==
  /\ IF attrs.email # NoneStr /\ EmailTaken(users, u, attrs.email)
       THEN /\ ureq' = [op |-> op, target |-> u, attrs |-> attrs,
                        env |-> NoneStr, status |-> 400]
            /\ users' = users
       ELSE /\ ureq' = [op |-> op, target |-> u, attrs |-> attrs,
                        env |-> NoneStr, status |-> 200]
            /\ users' = [users EXCEPT ![u] = UpdatedUser(users[u], attrs)]
  /\ UNCHANGED <<bookingVars, reviewVars, loop, tx, prev>>

PutUser ==
  \E u \in DOMAIN users : \E attrs \in FullUserAttrs : UpdateUser("PUT", u, attrs)

PatchUser ==
  \E u \in DOMAIN users : \E attrs \in PartialUserAttrs : UpdateUser("PATCH", u, attrs)

\* No user yet, or one that create_user made (username and hashed password
\* set).
InitUserStores ==
  {<<>>} \cup
  {[u \in {"u1"} |-> [email |-> e, username |-> e, password |-> make_password(p)]] :
     e \in Emails, p \in Passwords}

InitUsers ==
  /\ listings = <<>>
  /\ bookings = <<>>
  /\ old = bookings
  /\ req = NoReq
  /\ resp = NoResp
  /\ inflight = [w \in Workers |-> NoFlight]
  /\ calc_in = NoCalcIn
  /\ calc_out = NoCalc
  /\ ReviewsAtRest
  /\ users \in InitUserStores
  /\ ureq = NoUserReq
  /\ loop = NoLoop
  /\ tx = NoTx
  /\ prev = NoPrev

NextUsers == CreateUser \/ PutUser \/ PatchUser

SpecUsers == InitUsers /\ [][NextUsers]_vars

\* ------------------------------------------------------------------ seed transaction
\* Command.handle under @transaction.atomic, step by step.  users, listings,
\* bookings and reviews are the committed tables; tx.work holds the tables as
\* the transaction has written them, tx.before the tables as they were when
\* the command started.
Tables(u, l, b, r) == [users |-> u, listings |-> l, bookings |-> b, reviews |-> r]

Database == Tables(users, listings, bookings, reviews)

EmptyTables == Tables(<<>>, <<>>, <<>>, <<>>)

\* _create_users: User.objects.create without a password.
SeedUsers == [u \in Users |-> [email |-> u, username |-> u, password |-> Raw("")]]

\* What the tables hold when handle() is left without transaction.atomic:
\* whatever was written.
autocommit(before, work, raised) ==
  work

\* What the tables hold when handle() is left: transaction.atomic commits on
\* return and rolls back when an exception leaves the block.
atomic(before, work, raised) ==
  IF raised THEN before ELSE work

otherVars ==
  <<old, req, resp, inflight, calc_in, calc_out, old_reviews, rreq, rresp, out,
    ureq, loop, prev>>

\* The four .all().delete() calls.
TxDelete ==
  /\ tx.pc = "none"
  /\ tx' = [pc |-> "users", before |-> Database, work |-> EmptyTables]
  /\ UNCHANGED <<users, listings, bookings, reviews, otherVars>>

TxCreateUsers ==
  /\ tx.pc = "users"
  /\ tx' = [tx EXCEPT !.pc = "listings", !.work.users = SeedUsers]
  /\ UNCHANGED <<users, listings, bookings, reviews, otherVars>>

TxCreateListings ==
  /\ tx.pc = "listings"
  /\ tx' = [tx EXCEPT !.pc = "bookings", !.work.listings = ListingTable]
  /\ UNCHANGED <<users, listings, bookings, reviews, otherVars>>

TxCreateBookings ==
  /\ tx.pc = "bookings"
  /\ \E store \in create_bookings :
        tx' = [tx EXCEPT !.pc = "reviews", !.work.bookings = store]
  /\ UNCHANGED <<users, listings, bookings, reviews, otherVars>>

TxCreateReviews ==
  /\ tx.pc = "reviews"
  /\ \E store \in create_reviews :
        tx' = [tx EXCEPT !.pc = "return", !.work.reviews = store]
  /\ UNCHANGED <<users, listings, bookings, reviews, otherVars>>

\* handle() is left: by its return, or by an exception that a create raised.
TxLeave(raised) ==
  LET db == atomic(tx.before, tx.work, raised)
  IN /\ tx' = [tx EXCEPT !.pc = IF raised THEN "raised at " \o tx.pc ELSE "returned"]
     /\ users' = db.users
     /\ listings' = db.listings
     /\ bookings' = db.bookings
     /\ reviews' = db.reviews
     /\ UNCHANGED otherVars

TxReturn ==
  /\ tx.pc = "return"
  /\ TxLeave(FALSE)

TxRaise ==
  /\ tx.pc \in {"users", "listings", "bookings", "reviews"}
  /\ TxLeave(TRUE)

InitSeedTx ==
  /\ listings = ListingTable
  /\ bookings \in {s \in InitStores :
                     /\ DOMAIN s \subseteq {"b1"}
                     /\ \A b \in DOMAIN s :
                           s[b].booking_status = CONFIRMED /\ s[b].check_in_date = 0}
  /\ old = bookings
  /\ req = NoReq
  /\ resp = NoResp
  /\ inflight = [w \in Workers |-> NoFlight]
  /\ calc_in = NoCalcIn
  /\ calc_out = NoCalc
  /\ reviews \in {s \in InitReviewStores :
                    /\ DOMAIN s \subseteq {"r1"}
                    /\ \A r \in DOMAIN s : s[r].rating = MaxRating}
  /\ old_reviews = reviews
  /\ rreq = NoReviewReq
  /\ rresp = NoResp
  /\ out = NoOut
  /\ ExtrasAtRest

NextSeedTx ==
  \/ TxDelete
  \/ TxCreateUsers
  \/ TxCreateListings
  \/ TxCreateBookings
  \/ TxCreateReviews
  \/ TxReturn
  \/ TxRaise

SpecSeedTx == InitSeedTx /\ [][NextSeedTx]_vars

\* ------------------------------------------------------------------ host exclusion
\* The loop of the sample-data commands, once per booking and per review:
\*     user = random.choice(users); listing = random.choice(listings)
\*     while user == listing.host: user = random.choice(users)
\* loop.users is the list chosen from, loop.host the host of the listing.
LoopUsers == {"u1", "u2", "u3", "u4"}

\* user = random.choice(users), before the loop.
Choose ==
  /\ loop.pc = "choose"
  /\ \E u \in loop.users : loop' = [loop EXCEPT !.user = u, !.pc = "while"]
  /\ UNCHANGED <<bookingVars, reviewVars, users, ureq, tx, prev>>

\* A body that draws the host again.
Retry_host(u) ==
  /\ loop.pc = "while"
  /\ loop.user = loop.host
  /\ u \in loop.users
  /\ loop' = [loop EXCEPT !.user = loop.host, !.retried = TRUE]
  /\ UNCHANGED <<bookingVars, reviewVars, users, ureq, tx, prev>>

\* The body of the loop, when random.choice returns u.
Retry(u) ==
  /\ loop.pc = "while"
  /\ loop.user = loop.host
  /\ u \in loop.users
  /\ loop' = [loop EXCEPT !.user = u, !.retried = TRUE]
  /\ UNCHANGED <<bookingVars, reviewVars, users, ureq, tx, prev>>

\* The loop condition is false: on to the create.
Exit ==
  /\ loop.pc = "while"
  /\ loop.user # loop.host
  /\ loop' = [loop EXCEPT !.pc = "done"]
  /\ UNCHANGED <<bookingVars, reviewVars, users, ureq, tx, prev>>

\* Any non-empty list of users, and a listing hosted by one of them.
InitLoop ==
  /\ listings = ListingTable
  /\ bookings = <<>>
  /\ old = bookings
  /\ req = NoReq
  /\ resp = NoResp
  /\ inflight = [w \in Workers |-> NoFlight]
  /\ calc_in = NoCalcIn
  /\ calc_out = NoCalc
  /\ ReviewsAtRest
  /\ users = UserTable
  /\ ureq = NoUserReq
  /\ tx = NoTx
  /\ prev = NoPrev
  /\ loop \in {l \in [pc : {"choose"}, users : SUBSET LoopUsers, host : LoopUsers,
                      user : {NoneStr}, retried : {FALSE}] : l.host \in l.users}

NextLoop == Choose \/ (\E u \in LoopUsers : Retry(u)) \/ Exit

\* random.choice is fair: a user that each draw can return is returned by
\* some draw.
FairLoop ==
  /\ WF_vars(Choose)
  /\ WF_vars(Exit)
  /\ \A u \in LoopUsers : WF_vars(Retry(u))

SpecLoop == InitLoop /\ [][NextLoop]_vars /\ FairLoop






\* ------------------------------------------------------------------ properties
Handled == req # NoReq

HasDates(a) == a.check_in_date # None /\ a.check_out_date # None
ValidStay(a) == HasDates(a) /\ a.check_in_date < a.check_out_date

\* The ticks of the half-open interval [check_in, check_out).
Stay(r) == {t \in Times : r.check_in_date <= t /\ t < r.check_out_date}

\* Some CONFIRMED booking of listing l shares a tick with the stay of a.
Intersects(store, l, a) ==
  \E b \in DOMAIN store :
     /\ store[b].listing = l
     /\ store[b].booking_status = CONFIRMED
     /\ Stay(store[b]) \cap Stay(a) # {}

\* The listing a request is for: the one it names, else the one of the booking
\* it updates.
RequestedListing ==
  IF req.attrs.listing # NoneStr THEN req.attrs.listing
  ELSE IF req.target \in DOMAIN old THEN old[req.target].listing
  ELSE NoneStr

Capacity(l) == listings[l].allowable_guests

\* C1: for every listing, any two distinct CONFIRMED bookings have disjoint
\* half-open intervals [check_in_date, check_out_date), after any request
\* handled on its own through BookingSerializer.validate.
C1_NonOverlap == NonOverlap(bookings)

\* C2: the availability check and the save are one atomic step: however two
\* requests interleave, the store never holds two overlapping CONFIRMED
\* bookings of one listing, and of two creation requests for overlapping stays
\* of one listing that conflict with no stored booking, at most one is stored
\* and the other is rejected with the date-conflict error.
C2_AtomicAdmission ==
  /\ NonOverlap(bookings)
  /\ \A w1, w2 \in Workers :
        (/\ w1 # w2
         /\ inflight[w1].stage = "done" /\ inflight[w2].stage = "done"
         /\ inflight[w1].op = "POST" /\ inflight[w2].op = "POST"
         /\ inflight[w1].attrs.listing = inflight[w2].attrs.listing
         /\ ValidStay(inflight[w1].attrs) /\ ValidStay(inflight[w2].attrs)
         /\ Overlap(inflight[w1].attrs, inflight[w2].attrs)
         /\ ~Intersects(old, inflight[w1].attrs.listing, inflight[w1].attrs)
         /\ ~Intersects(old, inflight[w2].attrs.listing, inflight[w2].attrs))
        => /\ ~(inflight[w1].status = 201 /\ inflight[w2].status = 201)
           /\ \E w \in {w1, w2} : inflight[w].error = ErrConflict

\* C3: a proposal with check_in < check_out for a listing is rejected as a date
\* conflict if and only if some CONFIRMED booking of that listing shares a tick
\* with it; a booking that ends where the proposal starts, or starts where it
\* ends, is no conflict.
C3_Availability ==
  (Handled /\ ValidStay(req.attrs) /\ req.attrs.listing # NoneStr)
    => ((resp.error = ErrConflict)
          <=> Intersects(old, req.attrs.listing, req.attrs))

C3_Witness ==
  /\ Handled
  /\ ValidStay(req.attrs)
  /\ resp.status = 200
  /\ \E b \in DOMAIN old :
        /\ b # req.target
        /\ old[b].listing = req.attrs.listing
        /\ old[b].booking_status = CONFIRMED
        /\ old[b].check_out_date = req.attrs.check_in_date

\* C4: validation reports the first failure in the order interval, capacity,
\* date conflict: a request over the capacity that also overlaps a CONFIRMED
\* booking gets the capacity error, and a request with check_out <= check_in
\* gets the interval error whatever else is wrong.
C4_Order ==
  /\ (Handled /\ HasDates(req.attrs)
        /\ req.attrs.check_out_date <= req.attrs.check_in_date)
       => resp.error = ErrInterval
  /\ (Handled /\ ValidStay(req.attrs) /\ req.attrs.listing # NoneStr
        /\ req.attrs.number_of_guests # None
        /\ req.attrs.number_of_guests > Capacity(req.attrs.listing)
        /\ Intersects(old, req.attrs.listing, req.attrs))
       => resp.error = ErrCapacity

\* C5: for a stay of n > 0 whole days (a partial last day dropped) the amount
\* computed is exactly n times the listing's price_per_night: the float of the
\* decimal n * price_per_night.
C5_ExactAmount ==
  (/\ calc_out.op # "none"
   /\ calc_in.listing # NoneStr
   /\ calc_in.check_in_date # None
   /\ calc_in.check_out_date # None
   /\ Days(calc_in.check_in_date, calc_in.check_out_date) > 0)
    => /\ calc_out.ok
       /\ calc_out.value =
            float(Days(calc_in.check_in_date, calc_in.check_out_date)
                    * listings[calc_in.listing].price_per_night)

\* C6: a request whose check_out is after its check_in by less than a whole day
\* is rejected as an invalid interval, and no stored booking lasts zero nights.
C6_ZeroNights ==
  /\ (Handled /\ ValidStay(req.attrs)
        /\ Days(req.attrs.check_in_date, req.attrs.check_out_date) = 0)
       => (resp.status = 400 /\ resp.error = ErrInterval)
  /\ \A b \in DOMAIN bookings :
        Days(bookings[b].check_in_date, bookings[b].check_out_date) > 0

C8_CapacityRejected ==
  (Handled /\ ValidStay(req.attrs)
     /\ req.attrs.number_of_guests # None
     /\ req.attrs.number_of_guests > Capacity(RequestedListing)
     /\ ~Intersects(old, RequestedListing, req.attrs))
    => (resp.status = 400 /\ resp.error = ErrCapacity /\ bookings = old)

C10_AmountStored ==
  (Handled /\ req.op = "POST" /\ resp.status # 400)
    => /\ resp.status = 201
       /\ \E b \in DOMAIN bookings \ DOMAIN old :
             /\ bookings[b].amount_due > 0
             /\ bookings[b].amount_due =
                  Days(bookings[b].check_in_date, bookings[b].check_out_date)
                    * listings[bookings[b].listing].price_per_night

\* C11: the amount_due of a booking never changes after creation: whatever
\* listing price updates came since, Booking.clean leaves the booking with the
\* amount_due it was stored with.
C11_AmountImmutable ==
  (calc_out.op = "clean" /\ calc_out.ok /\ calc_in.amount_due # None)
    => Cents(calc_out.value) = calc_in.amount_due

\* C17: no stored booking is booked by the host of its listing.
C17_BookerNotHost ==
  \A b \in DOMAIN bookings :
     bookings[b].booked_by # listings[bookings[b].listing].host

\* C18: the status of a booking changes only from PENDING to CONFIRMED, from
\* PENDING to CANCELLED or from CONFIRMED to CANCELLED.
C18_StatusTransitions ==
  Handled =>
    \A b \in DOMAIN old \cap DOMAIN bookings :
       \/ bookings[b].booking_status = old[b].booking_status
       \/ <<old[b].booking_status, bookings[b].booking_status>> \in
            {<<PENDING, CONFIRMED>>, <<PENDING, CANCELLED>>,
             <<CONFIRMED, CANCELLED>>}

\* The arithmetic mean of the ratings of the reviews of listing l, as a float;
\* 0.0 when it has none.
MeanRating(store, l) ==
  LET ids == ReviewsOf(store, l)
      rows == Rows(store, CHOOSE o \in Orders(ids) : TRUE)
  IN IF ids = {} THEN Zero ELSE FloatOf(SumRatings(rows), Cardinality(ids))

Averaged == rreq.op = "average"

\* C12: the average rating computed for a listing is the arithmetic mean of
\* the ratings of its reviews, and 0.0, without an error, when it has none.
C12_AverageRating ==
  Averaged => out.ok /\ out.value = MeanRating(reviews, rreq.target)

\* C13: whatever reviews were created, updated and deleted, the average rating
\* computed for a listing is a number from 0.0 to 5.0.
C13_AverageInRange ==
  Averaged =>
    /\ out.ok
    /\ FloatLeq(Zero, out.value)
    /\ FloatLeq(out.value, FloatOf(MaxRating, 1))

C15_RatingField ==
  rreq.op = "serialize" => {"rating", "reviews", "bookings"} \subseteq out.keys

WroteReview == rreq.op \in {"POST", "PUT", "PATCH"}

\* C16: a review write whose rating is below 1 or above 5 is answered with
\* the validation error and stores nothing, and every stored review has a
\* rating from 1 to 5.
C16_RatingValidated ==
  /\ \A r \in DOMAIN reviews : reviews[r].rating \in Ratings
  /\ (WroteReview /\ rreq.attrs.rating # None /\ rreq.attrs.rating \notin Ratings)
       => /\ rresp = [status |-> 400, error |-> ErrRating]
          /\ reviews = old_reviews

\* An update of a stored review with a rating of 6 was rejected.
C16_Witness ==
  /\ rreq.op = "PUT"
  /\ rreq.attrs.rating = MaxRating + 1
  /\ rresp.status = 400
  /\ rreq.target \in DOMAIN reviews

\* C20: no request to the review endpoints changes the listing, the reviewer,
\* the rating or the comment of a review that exists.
C20_ReviewImmutable ==
  (WroteReview \/ rreq.op = "DELETE") =>
    \A r \in DOMAIN old_reviews \cap DOMAIN reviews : reviews[r] = old_reviews[r]

C22_ValidationReadOnly ==
  (\A w \in Workers : inflight[w].status \notin {200, 201, 500})
    => /\ bookings = old
       /\ listings = ListingTable
       /\ reviews = <<>>

\* One request was rejected and another accepted by validation, none saved.
C22_Witness ==
  \E w1, w2 \in Workers :
     /\ inflight[w1].stage = "done" /\ inflight[w1].status = 400
     /\ inflight[w2].stage = "validated"

\* The request is a full update of a stored CONFIRMED booking that names the
\* booking's own listing and dates, and no other CONFIRMED booking of that
\* listing shares a tick with them.
UpdatesItself ==
  /\ req.op = "PUT"
  /\ req.target \in DOMAIN old
  /\ old[req.target].booking_status = CONFIRMED
  /\ req.attrs.listing = old[req.target].listing
  /\ req.attrs.check_in_date = old[req.target].check_in_date
  /\ req.attrs.check_out_date = old[req.target].check_out_date
  /\ ~Intersects([b \in DOMAIN old \ {req.target} |-> old[b]],
                 req.attrs.listing, req.attrs)

\* C26: an update of a CONFIRMED booking that keeps its listing and dates is
\* not rejected as a date conflict with the booking itself.
C26_NoSelfConflict == UpdatesItself => resp.error # ErrConflict

C21_CascadeDelete ==
  /\ \A b \in DOMAIN bookings :
        bookings[b].listing \in DOMAIN listings /\ bookings[b].booked_by \in DOMAIN users
  /\ \A r \in DOMAIN reviews :
        reviews[r].listing \in DOMAIN listings /\ reviews[r].reviewed_by \in DOMAIN users
  /\ \A l \in DOMAIN listings : listings[l].host \in DOMAIN users

\* A listing that had a booking and a review was deleted.
C21_Witness ==
  /\ prev.op = "delete_listing"
  /\ \E b \in DOMAIN old : old[b].listing = prev.target
  /\ \E r \in DOMAIN old_reviews : old_reviews[r].listing = prev.target
  /\ prev.target \notin DOMAIN listings

\* C24: every stored booking has at most as many guests as its listing
\* allows, also after the listing's allowable_guests was lowered.
C24_GuestsWithinCapacity ==
  \A b \in DOMAIN bookings :
     bookings[b].listing \in DOMAIN listings
       => bookings[b].number_of_guests <= listings[bookings[b].listing].allowable_guests

Released == prev.op \in {"cancel", "delete"} /\ req.op = "POST"

\* C23: only CONFIRMED bookings block dates: a request is rejected as a date
\* conflict only if a CONFIRMED booking of its listing shares a tick with it,
\* and once a CONFIRMED booking is cancelled or deleted, a request for its
\* listing and dates is not rejected as a conflict unless another CONFIRMED
\* booking shares a tick with it.
C23_OnlyConfirmedBlocks ==
  Released =>
    /\ resp.error = ErrConflict => Intersects(old, req.attrs.listing, req.attrs)
    /\ (~\E b \in DOMAIN old \ {prev.target} :
            /\ old[b].listing = req.attrs.listing
            /\ old[b].booking_status = CONFIRMED
            /\ Stay(old[b]) \cap Stay(req.attrs) # {})
         => resp.error # ErrConflict

\* A booking was cancelled and stayed with its listing, a PENDING booking of
\* the listing overlaps it, and the request for its dates passed validation.
C23_Witness ==
  /\ Released
  /\ prev.op = "cancel"
  /\ prev.target \in DOMAIN old
  /\ old[prev.target].listing = req.attrs.listing
  /\ old[prev.target].booking_status = CANCELLED
  /\ \E b \in DOMAIN old \ {prev.target} :
        /\ old[b].listing = req.attrs.listing
        /\ old[b].booking_status = PENDING
        /\ Stay(old[b]) \cap Stay(req.attrs) # {}
  /\ resp.error = ErrNotNull

C30_LoopTerminates ==
  /\ (loop.users \ {loop.host} # {}) ~> (loop.pc = "done")
  /\ [](loop.users = {loop.host} => loop.pc # "done")

\* The first draw was the host, the body of the loop ran, and the loop ended.
C30_Witness == loop.pc = "done" /\ loop.retried

\* C27: the stored password of every user is a hash that set_password made,
\* never a string as it was submitted, and a user created without a password
\* has the hash of the default password.
C27_PasswordsHashed ==
  /\ \A u \in DOMAIN users : users[u].password.algorithm # ""
  /\ (ureq.op = "POST" /\ ureq.status = 201 /\ ureq.attrs.password = NoneStr)
       => /\ ureq.env # NoneStr
          /\ users[ureq.target].password = make_password(ureq.env)

\* C29: the seed command is all or nothing: when a step after the deletion
\* raises, the tables are those the command found, and when the command
\* returns, they hold what it created and nothing else.
C29_SeedAllOrNothing ==
  /\ tx.pc \in {"raised at users", "raised at listings", "raised at bookings",
                "raised at reviews"} => Database = tx.before
  /\ tx.pc = "returned" =>
        Database = Tables(SeedUsers, ListingTable, tx.work.bookings, tx.work.reviews)

\* Creating the reviews raised, after the bookings of a database that held a
\* booking and a review had been deleted and replaced.
C29_Witness ==
  /\ tx.pc = "raised at reviews"
  /\ tx.before.bookings # <<>>
  /\ tx.before.reviews # <<>>
  /\ tx.work.bookings # <<>>

====
